---- MODULE Spec2Model ----
(***************************************************************************)
(* Model of graphql-lambda's subscription fan-out:                         *)
(*   ApiGatewayConnectionManager  (connection registry + transport send),  *)
(*   SubscriptionManager          (event name -> subscriber list),         *)
(*   EventProcessor.createHandler (dispatch of one event to subscribers).  *)
(* The runtime is a single-threaded event loop: an async function runs     *)
(* atomically up to its next await, so every action below is one such      *)
(* run-to-await segment.                                                   *)
(* Four specifications share the variables: Spec (calls interleaved with   *)
(* dispatches), SpecFair (Spec with the handler's continuation scheduled), *)
(* SpecApi (registry and index calls only) and SpecIter (index calls and   *)
(* iterations of one subscriber sequence).                                 *)
(***************************************************************************)
EXTENDS Integers, Sequences, FiniteSets, Bags, TLC

\* ---------------------------------------------------------------- bounds
\* registry/index calls made around the dispatches (Spec)
MaxOps == 2
\* registry/index calls made in a row (SpecApi)
MaxApiOps == 4
\* length of the names argument of subscribe
MaxNames == 2
\* index calls made around the iterations of a subscriber sequence (SpecIter)
MaxIterOps == 3
\* iterations started on one subscriber sequence (SpecIter)
MaxIterations == 2

\* ---------------------------------------------------------------- inputs
ConnIds == {"c1", "c2"}
EventNames == {"e1", "e2"}
OpIds == {"op1", "op2"}
Payloads == {"p1"}
\* the endpoint (domain/stage of the API) a connection id belongs to: the
\* callers of the registry pass the endpoint of the connection's own event
EndpointOf == [id \in ConnIds |-> IF id = "c1" THEN "ep1" ELSE "ep2"]
Endpoints == {EndpointOf[id] : id \in ConnIds}
EmptyContext == "{}"
CustomContext == "ctx"
GQL_DATA == "data"
NoManager == "undefined"
NoReturn == [kind |-> "none"]
\* e.statusCode of a stale connection
GoneStatusCode == 410
\* the statuses the transport answers a post with: success (no error is
\* thrown), gone, and some other error
StatusCodes == {200, GoneStatusCode, 500}
PostSucceeds(statusCode) == statusCode = 200

\* the names: string[] argument of subscribe (possibly empty, possibly
\* naming the same event twice)
NameLists == UNION {[1..n -> EventNames] : n \in 0..MaxNames}

\* ---------------------------------------------------------------- state
VARIABLES
  connections,        \* ApiGatewayConnectionManager.connections : Map<id, IConnection>
  apiGatewayManager,  \* the cached ApiGatewayManagementApi (its endpoint) or undefined
  subscriptions,      \* SubscriptionManager.subscriptions : Map<name, ISubscriber[]>
  handler,            \* state of the handler's promise: idle | running | resolved | rejected
  event,              \* the event of the current dispatch
  batch,              \* the subscriber batch the dispatch iterates over
  branches,           \* one record per subscriber promise of the batch
  sendLog,            \* bag of the postToConnection calls of the current dispatch
  errLog,             \* bag of the onError invocations of the current dispatch
  indexTouched,       \* an index operation ran since the current dispatch started
  ops,                \* number of registry/index API calls made so far
  ret,                \* what the last hydrate / hydrateOrRegister call returned or threw
  sequence,           \* the object returned by the last subscribersByEvent(event) call
  iterations,         \* number of times sequence[Symbol.asyncIterator]() was called
  iterator,           \* the items left in the iterator it returned last
  yielded             \* the batches the iterators of sequence have yielded

regVars == <<connections, apiGatewayManager>>
dispVars == <<handler, event, batch, branches, sendLog, errLog>>
iterVars == <<sequence, iterations, iterator, yielded>>
auxVars == <<ret, iterVars>>
vars == <<connections, apiGatewayManager, subscriptions, handler, event, batch,
          branches, sendLog, errLog, indexTouched, ops, ret, sequence, iterations,
          iterator, yielded>>

\* ---------------------------------------------------------------- Map helpers
MapSet(m, k, v) == [x \in (DOMAIN m) \cup {k} |-> IF x = k THEN v ELSE m[x]]

MapDelete(m, k) == [x \in (DOMAIN m) \ {k} |-> m[x]]

EmptyMap == [x \in {} |-> x]

\* ---------------------------------------------------------------- ApiGatewayConnectionManager
NewConnection(connectionId, endpoint, initialized) ==
  [id |-> connectionId,
   data |-> [endpoint |-> endpoint, context |-> EmptyContext,
             isInitialized |-> initialized]]

\* what a call hands back to its caller
Return(value) == [kind |-> "return", value |-> value]
Throw(error) == [kind |-> "throw", error |-> error]

hydrateOrRegisterConnectionOverwrites(conns, connectionId, endpoint) ==
  MapSet(conns, connectionId, NewConnection(connectionId, endpoint, TRUE))

hydrateOrRegisterConnection(conns, connectionId, endpoint) ==
  IF connectionId \notin DOMAIN conns
    THEN MapSet(conns, connectionId, NewConnection(connectionId, endpoint, TRUE))
    ELSE conns

\* the call returns the record found or the one just stored
HydrateOrRegisterConnection(connectionId, endpoint) ==
  /\ connections' = hydrateOrRegisterConnection(connections, connectionId, endpoint)
  /\ ret' = Return(connections'[connectionId])
  /\ UNCHANGED <<apiGatewayManager, subscriptions, dispVars, indexTouched, iterVars>>

hydrateConnectionOrNew(conns, connectionId) ==
  IF connectionId \notin DOMAIN conns
    THEN Return(NewConnection(connectionId, EndpointOf[connectionId], TRUE))
    ELSE Return(conns[connectionId])

\* the outcome of hydrateConnection: the record, or ConnectionNotFoundError
hydrateConnection(conns, connectionId) ==
  IF connectionId \notin DOMAIN conns
    THEN Throw("ConnectionNotFoundError")
    ELSE Return(conns[connectionId])

HydrateConnection(connectionId) ==
  /\ ret' = hydrateConnection(connections, connectionId)
  /\ UNCHANGED <<regVars, subscriptions, dispVars, indexTouched, iterVars>>

\* closeConnection only schedules a timer whose callback logs
CloseConnection(connection) ==
  /\ ret' = NoReturn
  /\ UNCHANGED <<regVars, subscriptions, dispVars, indexTouched, iterVars>>

\* the connection objects some caller can still hold a reference to: the
\* registered ones and the ones referenced by subscribers
HeldConnections ==
  {connections[id] : id \in DOMAIN connections} \cup
  UNION {{subscriptions[k][i].connection : i \in 1..Len(subscriptions[k])} :
           k \in DOMAIN subscriptions}

setConnectionData(conns, data, connection) ==
  MapSet(conns, connection.id, [id |-> connection.id, data |-> data])

SetConnectionData(data, connection) ==
  /\ connections' = setConnectionData(connections, data, connection)
  /\ UNCHANGED <<apiGatewayManager, subscriptions, dispVars, indexTouched, iterVars>>
  /\ ret' = NoReturn

registerConnectionIfAbsent(conns, connectionId, endpoint) ==
  IF connectionId \in DOMAIN conns
    THEN conns
    ELSE MapSet(conns, connectionId, NewConnection(connectionId, endpoint, FALSE))

registerConnection(conns, connectionId, endpoint) ==
  MapSet(conns, connectionId, NewConnection(connectionId, endpoint, FALSE))

\* the call returns the record just stored
RegisterConnection(connectionId, endpoint) ==
  /\ connections' = registerConnection(connections, connectionId, endpoint)
  /\ ret' = Return(connections'[connectionId])
  /\ UNCHANGED <<apiGatewayManager, subscriptions, dispVars, indexTouched, iterVars>>

unregisterConnection(conns, connection) == MapDelete(conns, connection.id)

UnregisterConnectionAndSubscribers(connection) ==
  /\ connections' = unregisterConnection(connections, connection)
  /\ subscriptions' =
       [k \in DOMAIN subscriptions |->
          SelectSeq(subscriptions[k], LAMBDA s : s.connection.id # connection.id)]
  /\ UNCHANGED <<apiGatewayManager, dispVars, indexTouched, iterVars>>
  /\ ret' = NoReturn

UnregisterConnection(connection) ==
  /\ connections' = unregisterConnection(connections, connection)
  /\ UNCHANGED <<apiGatewayManager, subscriptions, dispVars, indexTouched, iterVars>>
  /\ ret' = NoReturn

\* createApiGatewayManager: the manager is built for the endpoint of the
\* first send and returned unchanged by every later call
createApiGatewayManager(manager, endpoint) ==
  IF manager # NoManager THEN manager ELSE endpoint

\* ---------------------------------------------------------------- SubscriptionManager
getSubscriptionNameFromEvent(ev) == ev.event

getSubscriptionNameFromConnection(name, connection) == name

HasConnection(list, connectionId) ==
  \E i \in 1..Len(list) : list[i].connection.id = connectionId

\* subscribe without the duplicate test
SubscribeNameAlways(subs, n, connection, operation) ==
  LET name == getSubscriptionNameFromConnection(n, connection)
      subscription == [connection |-> connection,
                       operation |-> operation,
                       event |-> name,
                       operationId |-> operation.operationId]
  IN  IF name \notin DOMAIN subs
        THEN MapSet(subs, name, <<subscription>>)
        ELSE MapSet(subs, name, Append(subs[name], subscription))

\* subscribe with the duplicate test keyed by (connection id, operationId)
SubscribeNamePerOperation(subs, n, connection, operation) ==
  LET name == getSubscriptionNameFromConnection(n, connection)
      subscription == [connection |-> connection,
                       operation |-> operation,
                       event |-> name,
                       operationId |-> operation.operationId]
  IN  IF name \notin DOMAIN subs
        THEN MapSet(subs, name, <<subscription>>)
        ELSE IF ~ \E i \in 1..Len(subs[name]) :
                    /\ subs[name][i].connection.id = connection.id
                    /\ subs[name][i].operationId = operation.operationId
               THEN MapSet(subs, name, Append(subs[name], subscription))
               ELSE subs

SubscribeNameLastWins(subs, n, connection, operation) ==
  LET name == getSubscriptionNameFromConnection(n, connection)
      subscription == [connection |-> connection,
                       operation |-> operation,
                       event |-> name,
                       operationId |-> operation.operationId]
  IN  IF name \notin DOMAIN subs
        THEN MapSet(subs, name, <<subscription>>)
        ELSE IF ~HasConnection(subs[name], connection.id)
               THEN MapSet(subs, name, Append(subs[name], subscription))
               ELSE MapSet(subs, name,
                           [i \in 1..Len(subs[name]) |->
                              IF subs[name][i].connection.id = connection.id
                                THEN subscription ELSE subs[name][i]])

\* one iteration of names.forEach in subscribe
SubscribeName(subs, n, connection, operation) ==
  LET name == getSubscriptionNameFromConnection(n, connection)
      subscription == [connection |-> connection,
                       operation |-> operation,
                       event |-> name,
                       operationId |-> operation.operationId]
  IN  IF name \notin DOMAIN subs
        THEN MapSet(subs, name, <<subscription>>)
        ELSE IF ~HasConnection(subs[name], connection.id)
               THEN MapSet(subs, name, Append(subs[name], subscription))
               ELSE subs

RECURSIVE subscribe(_, _, _, _)
subscribe(subs, names, connection, operation) ==
  IF names = <<>> THEN subs
  ELSE subscribe(SubscribeName(subs, Head(names), connection, operation),
                 Tail(names), connection, operation)

Subscribe(names, connection, operation) ==
  /\ subscriptions' = subscribe(subscriptions, names, connection, operation)
  /\ indexTouched' = TRUE
  /\ UNCHANGED <<regVars, dispVars, iterVars>>
  /\ ret' = NoReturn

unsubscribeEveryEvent(subs, subscriber) ==
  [k \in DOMAIN subs |->
     SelectSeq(subs[k], LAMBDA s : s.connection.id # subscriber.connection.id)]

unsubscribe(subs, subscriber) ==
  IF subscriber.event \in DOMAIN subs
    THEN MapSet(subs, subscriber.event,
                SelectSeq(subs[subscriber.event],
                          LAMBDA s : s.connection.id # subscriber.connection.id))
    ELSE subs

Unsubscribe(subscriber) ==
  /\ subscriptions' = unsubscribe(subscriptions, subscriber)
  /\ indexTouched' = TRUE
  /\ UNCHANGED <<regVars, dispVars, iterVars>>
  /\ ret' = NoReturn

unsubscribeOperation(subs, connectionId, operationId) ==
  [k \in DOMAIN subs |->
     SelectSeq(subs[k],
               LAMBDA subscriber : /\ subscriber.connection.id # connectionId
                                   /\ subscriber.operationId # operationId)]

UnsubscribeOperation(connectionId, operationId) ==
  /\ subscriptions' = unsubscribeOperation(subscriptions, connectionId, operationId)
  /\ indexTouched' = TRUE
  /\ UNCHANGED <<regVars, dispVars, iterVars>>
  /\ ret' = NoReturn

unsubscribeAllByConnectionId(subs, connectionId) ==
  [k \in DOMAIN subs |->
     SelectSeq(subs[k], LAMBDA s : s.connection.id = connectionId)]

UnsubscribeAllByConnectionId(connectionId) ==
  /\ subscriptions' = unsubscribeAllByConnectionId(subscriptions, connectionId)
  /\ indexTouched' = TRUE
  /\ UNCHANGED <<regVars, dispVars, iterVars>>
  /\ ret' = NoReturn

subscribersByEventOfAnyKey(subs, ev) ==
  LET listOf(name) == IF name \in DOMAIN subs THEN subs[name] ELSE <<>>
  IN  listOf("e1") \o listOf("e2")

\* the single batch yielded by the iterator of subscribersByEvent(event)
subscribersByEvent(subs, ev) ==
  LET name == getSubscriptionNameFromEvent(ev)
      list == IF name \in DOMAIN subs THEN subs[name] ELSE <<>>
  IN  SelectSeq(list, LAMBDA subscriber : subscriber.event = name)

\* no event: no dispatch started, no sequence obtained
NoEvent == [event |-> "none"]

\* createAsyncIterator([subscribers]): an iterator over one item
createAsyncIterator(items) == items

\* a caller obtains the object subscribersByEvent(event) returns; nothing is
\* computed yet
CallSubscribersByEvent(ev) ==
  /\ sequence' = ev
  /\ iterations' = 0
  /\ iterator' = <<>>
  /\ yielded' = <<>>
  /\ UNCHANGED <<regVars, subscriptions, dispVars, indexTouched, ops>>
  /\ ret' = NoReturn

\* sequence[Symbol.asyncIterator]() is called (a for await starts): the list
\* is looked up and filtered now and a new iterator over it is returned
StartIteration ==
  /\ sequence # NoEvent
  /\ iterations < MaxIterations
  /\ iterations' = iterations + 1
  /\ iterator' = createAsyncIterator(<<subscribersByEvent(subscriptions, sequence)>>)
  /\ UNCHANGED <<regVars, subscriptions, dispVars, indexTouched, ops,
                 sequence, yielded>>
  /\ ret' = NoReturn

\* next() on that iterator yields an item
IteratorNext ==
  /\ iterator # <<>>
  /\ yielded' = Append(yielded, [iteration |-> iterations, batch |-> Head(iterator)])
  /\ iterator' = Tail(iterator)
  /\ UNCHANGED <<regVars, subscriptions, dispVars, indexTouched, ops,
                 sequence, iterations>>
  /\ ret' = NoReturn

\* ---------------------------------------------------------------- EventProcessor

\* a subscriber's promise right after subscribers.map started it: it runs up
\* to its first await (createGraphQLServerOptions / execute / iterator.next)
NewBranch ==
  [pc |-> "executing", result |-> "none", value |-> "null", send |-> "none",
   promise |-> "pending", wrapped |-> "pending"]

Branch(i) == branches[i]

formatMessage(id, payload, type) == [id |-> id, payload |-> payload, type |-> type]

\* the async callback returned (or fell through): promise fulfilled, and so
\* is promise.catch(this.onError)
Fulfil(i, b) ==
  /\ branches' = [branches EXCEPT ![i] =
                    [b EXCEPT !.pc = "settled", !.promise = "fulfilled",
                              !.wrapped = "fulfilled"]]
  /\ UNCHANGED errLog

\* the promises handed to Promise.all without .catch(this.onError)
RejectUncaught(i, b, err) ==
  /\ branches' = [branches EXCEPT ![i] =
                    [b EXCEPT !.pc = "settled", !.promise = "rejected",
                              !.wrapped = "rejected"]]
  /\ UNCHANGED errLog

\* the async callback threw: promise rejected, promise.catch(this.onError)
\* hands the error to onError and is fulfilled with its return value
Reject(i, b, err) ==
  /\ branches' = [branches EXCEPT ![i] =
                    [b EXCEPT !.pc = "settled", !.promise = "rejected",
                              !.wrapped = "fulfilled"]]
  /\ errLog' = errLog (+) SetToBag({[branch |-> i, err |-> err]})

\* the handler is called with an event: the iterator of
\* subscribersByEvent yields its batch and subscribers.map starts one
\* promise per subscriber
StartDispatch ==
  /\ handler # "running"
  /\ \E name \in EventNames :
       /\ event' = [event |-> name]
       /\ batch' = subscribersByEvent(subscriptions, event')
       /\ branches' = [i \in 1..Len(batch') |-> NewBranch]
  /\ handler' = "running"
  /\ sendLog' = EmptyBag
  /\ errLog' = EmptyBag
  /\ indexTouched' = FALSE
  /\ UNCHANGED <<regVars, subscriptions, ops, iterVars>>
  /\ ret' = NoReturn

\* createGraphQLServerOptions, execute, the filter or iterator.next throws
ExecuteThrows(i) ==
  /\ i \in DOMAIN branches
  /\ Branch(i).pc = "executing"
  /\ Reject(i, [Branch(i) EXCEPT !.result = "throw"], "execution")
  /\ UNCHANGED <<regVars, subscriptions, handler, event, batch, sendLog,
                 indexTouched, ops, iterVars>>
  /\ ret' = NoReturn

\* a non-iterable result thrown as an error instead of returned from
ExecuteNotIterableThrows(i) ==
  /\ i \in DOMAIN branches
  /\ Branch(i).pc = "executing"
  /\ Reject(i, [Branch(i) EXCEPT !.result = "noniterable"], "execution")
  /\ UNCHANGED <<regVars, subscriptions, handler, event, batch, sendLog,
                 indexTouched, ops, iterVars>>
  /\ ret' = NoReturn

\* execute returns something that is not an async iterable
ExecuteNotIterable(i) ==
  /\ i \in DOMAIN branches
  /\ Branch(i).pc = "executing"
  /\ Fulfil(i, [Branch(i) EXCEPT !.result = "noniterable"])
  /\ UNCHANGED <<regVars, subscriptions, handler, event, batch, sendLog,
                 indexTouched, ops, iterVars>>
  /\ ret' = NoReturn

\* the result sent without the result.value != null test
ExecuteNullSends(i) ==
  /\ i \in DOMAIN branches
  /\ Branch(i).pc = "executing"
  /\ apiGatewayManager' =
       createApiGatewayManager(apiGatewayManager, batch[i].connection.data.endpoint)
  /\ sendLog' = sendLog (+) SetToBag({
                  [branch |-> i,
                   endpoint |-> apiGatewayManager',
                   ConnectionId |-> batch[i].connection.id,
                   Data |-> formatMessage(batch[i].operationId, "null", GQL_DATA)]})
  /\ branches' = [branches EXCEPT ![i] = [@ EXCEPT !.pc = "sending", !.result = "null"]]
  /\ UNCHANGED <<connections, subscriptions, handler, event, batch, errLog,
                 indexTouched, ops, iterVars>>
  /\ ret' = NoReturn

\* iterator.next() yields result.value == null (the filter rejected the event)
ExecuteNull(i) ==
  /\ i \in DOMAIN branches
  /\ Branch(i).pc = "executing"
  /\ Fulfil(i, [Branch(i) EXCEPT !.result = "null"])
  /\ UNCHANGED <<regVars, subscriptions, handler, event, batch, sendLog,
                 indexTouched, ops, iterVars>>
  /\ ret' = NoReturn

\* execute called with registerSubscriptions: true, so that it subscribes
\* the operation again
ExecuteValueRegisters(i, v) ==
  /\ i \in DOMAIN branches
  /\ Branch(i).pc = "executing"
  /\ subscriptions' = subscribe(subscriptions, <<batch[i].event>>,
                                batch[i].connection, batch[i].operation)
  /\ apiGatewayManager' =
       createApiGatewayManager(apiGatewayManager, batch[i].connection.data.endpoint)
  /\ sendLog' = sendLog (+) SetToBag({
                  [branch |-> i,
                   endpoint |-> apiGatewayManager',
                   ConnectionId |-> batch[i].connection.id,
                   Data |-> formatMessage(batch[i].operationId, v, GQL_DATA)]})
  /\ branches' = [branches EXCEPT ![i] =
                    [@ EXCEPT !.pc = "sending", !.result = "value", !.value = v]]
  /\ UNCHANGED <<connections, handler, event, batch, errLog, indexTouched, ops, iterVars>>
  /\ ret' = NoReturn

\* iterator.next() yields a result: sendToConnection is called and runs up
\* to the await of postToConnection(...).promise()
ExecuteValueOfCurrentList(i, v) ==
  LET current == subscribersByEvent(subscriptions, event)
  IN  /\ i \in DOMAIN branches
      /\ i \in DOMAIN current
      /\ Branch(i).pc = "executing"
      /\ apiGatewayManager' =
           createApiGatewayManager(apiGatewayManager, current[i].connection.data.endpoint)
      /\ sendLog' = sendLog (+) SetToBag({
                      [branch |-> i,
                       endpoint |-> apiGatewayManager',
                       ConnectionId |-> current[i].connection.id,
                       Data |-> formatMessage(current[i].operationId, v, GQL_DATA)]})
      /\ branches' = [branches EXCEPT ![i] =
                        [@ EXCEPT !.pc = "sending", !.result = "value", !.value = v]]
      /\ UNCHANGED <<connections, subscriptions, handler, event, batch, errLog,
                     indexTouched, ops, iterVars>>
      /\ ret' = NoReturn

ExecuteValue(i, v) ==
  /\ i \in DOMAIN branches
  /\ Branch(i).pc = "executing"
  /\ apiGatewayManager' =
       createApiGatewayManager(apiGatewayManager, batch[i].connection.data.endpoint)
  /\ sendLog' = sendLog (+) SetToBag({
                  [branch |-> i,
                   endpoint |-> apiGatewayManager',
                   ConnectionId |-> batch[i].connection.id,
                   Data |-> formatMessage(batch[i].operationId, v, GQL_DATA)]})
  /\ branches' = [branches EXCEPT ![i] =
                    [@ EXCEPT !.pc = "sending", !.result = "value", !.value = v]]
  /\ UNCHANGED <<connections, subscriptions, handler, event, batch, errLog,
                 indexTouched, ops, iterVars>>
  /\ ret' = NoReturn

\* sendToConnection rethrowing every error, the stale one included
PostSettlesRethrowsGone(i, statusCode) ==
  /\ i \in DOMAIN branches
  /\ Branch(i).pc = "sending"
  /\ connections' = connections
  /\ IF PostSucceeds(statusCode)
       THEN Fulfil(i, [Branch(i) EXCEPT !.send = "ok"])
       ELSE IF statusCode = GoneStatusCode
              THEN Reject(i, [Branch(i) EXCEPT !.send = "stale"], "transport")
              ELSE Reject(i, [Branch(i) EXCEPT !.send = "error"], "transport")
  /\ UNCHANGED <<apiGatewayManager, subscriptions, handler, event, batch, sendLog,
                 indexTouched, ops, iterVars>>
  /\ ret' = NoReturn

\* sendToConnection unregistering the connection on every error
PostSettlesUnregistersOnAnyError(i, statusCode) ==
  /\ i \in DOMAIN branches
  /\ Branch(i).pc = "sending"
  /\ connections' =
       IF ~PostSucceeds(statusCode)
         THEN unregisterConnection(connections, batch[i].connection)
         ELSE connections
  /\ IF PostSucceeds(statusCode)
       THEN Fulfil(i, [Branch(i) EXCEPT !.send = "ok"])
       ELSE IF statusCode = GoneStatusCode
              THEN Fulfil(i, [Branch(i) EXCEPT !.send = "stale"])
              ELSE Reject(i, [Branch(i) EXCEPT !.send = "error"], "transport")
  /\ UNCHANGED <<apiGatewayManager, subscriptions, handler, event, batch, sendLog,
                 indexTouched, ops, iterVars>>
  /\ ret' = NoReturn

\* postToConnection(...).promise() settles with a status: success, or an
\* error e carrying e.statusCode. The catch block of sendToConnection
\* unregisters the connection and swallows the error when the status is
\* 410, and rethrows every other error
PostSettles(i, statusCode) ==
  /\ i \in DOMAIN branches
  /\ Branch(i).pc = "sending"
  /\ connections' =
       IF statusCode = GoneStatusCode
         THEN unregisterConnection(connections, batch[i].connection)
         ELSE connections
  /\ IF PostSucceeds(statusCode)
       THEN Fulfil(i, [Branch(i) EXCEPT !.send = "ok"])
       ELSE IF statusCode = GoneStatusCode
              THEN Fulfil(i, [Branch(i) EXCEPT !.send = "stale"])
              ELSE Reject(i, [Branch(i) EXCEPT !.send = "error"], "transport")
  /\ UNCHANGED <<apiGatewayManager, subscriptions, handler, event, batch, sendLog,
                 indexTouched, ops, iterVars>>
  /\ ret' = NoReturn

\* the promises raced instead of awaited together
PromiseAny(bs) ==
  IF \E i \in DOMAIN bs : bs[i].wrapped = "rejected" THEN "rejected"
  ELSE IF bs = <<>> \/ \E i \in DOMAIN bs : bs[i].wrapped = "fulfilled" THEN "resolved"
  ELSE "running"

\* await Promise.all(promises): rejects as soon as one promise is rejected,
\* is fulfilled when all are; then the iterator is done and the handler returns
PromiseAll(bs) ==
  IF \E i \in DOMAIN bs : bs[i].wrapped = "rejected" THEN "rejected"
  ELSE IF \A i \in DOMAIN bs : bs[i].wrapped = "fulfilled" THEN "resolved"
  ELSE "running"

HandlerSettles ==
  /\ handler = "running"
  /\ PromiseAll(branches) # "running"
  /\ handler' = PromiseAll(branches)
  /\ UNCHANGED <<regVars, subscriptions, event, batch, branches, sendLog, errLog,
                 indexTouched, ops, iterVars>>
  /\ ret' = NoReturn

\* the subscribers awaited one after the other instead of mapped concurrently
BranchStepSequential(i) ==
  /\ \A j \in DOMAIN branches : j < i => branches[j].pc = "settled"
  /\ \/ ExecuteThrows(i)
     \/ ExecuteNotIterable(i)
     \/ ExecuteNull(i)
     \/ \E v \in Payloads : ExecuteValue(i, v)
     \/ \E statusCode \in StatusCodes : PostSettles(i, statusCode)

BranchStep(i) ==
  \/ ExecuteThrows(i)
  \/ ExecuteNotIterable(i)
  \/ ExecuteNull(i)
  \/ \E v \in Payloads : ExecuteValue(i, v)
  \/ \E statusCode \in StatusCodes : PostSettles(i, statusCode)

\* ---------------------------------------------------------------- specification
\* connectionManagerStorage may be handed to the constructor already holding
\* connections (the records hydrateOrRegisterConnection creates); the
\* subscription storage starts empty
InitialRegistries ==
  {[id \in S |-> NewConnection(id, EndpointOf[id], TRUE)] : S \in SUBSET ConnIds}

Init ==
  /\ connections \in InitialRegistries
  /\ apiGatewayManager = NoManager
  /\ subscriptions = EmptyMap
  /\ handler = "idle"
  /\ event = NoEvent
  /\ batch = <<>>
  /\ branches = <<>>
  /\ sendLog = EmptyBag
  /\ errLog = EmptyBag
  /\ indexTouched = FALSE
  /\ ops = 0
  /\ ret = NoReturn
  /\ sequence = NoEvent
  /\ iterations = 0
  /\ iterator = <<>>
  /\ yielded = <<>>

\* ---- inputs of the API calls
\* the data a caller stores: the data of a connection it holds with the
\* context replaced, marked initialized
DataOf(connection) ==
  [connection.data EXCEPT !.context = CustomContext, !.isInitialized = TRUE]

\* the subscriber argument of unsubscribe (only event and connection.id are read)
SubscriberArgs ==
  {[event |-> name, connection |-> [id |-> id]] : name \in EventNames, id \in ConnIds}

HydrateOrRegisterConnectionCall ==
  \E id \in ConnIds : HydrateOrRegisterConnection(id, EndpointOf[id])

\* the same call with any endpoint, also one the record was not stored with
HydrateOrRegisterConnectionAtCall ==
  \E id \in ConnIds, endpoint \in Endpoints : HydrateOrRegisterConnection(id, endpoint)

HydrateConnectionCall ==
  \E id \in ConnIds : HydrateConnection(id)

CloseConnectionCall ==
  \E connection \in HeldConnections : CloseConnection(connection)

SetConnectionDataCall ==
  \E connection \in HeldConnections :
    SetConnectionData(DataOf(connection), connection)

RegisterConnectionCall ==
  \E id \in ConnIds : RegisterConnection(id, EndpointOf[id])

UnregisterConnectionCall ==
  \E connection \in HeldConnections : UnregisterConnection(connection)

SubscribeCall ==
  \E names \in NameLists, id \in DOMAIN connections, operationId \in OpIds :
    Subscribe(names, connections[id], [operationId |-> operationId])

UnsubscribeCall ==
  \E subscriber \in SubscriberArgs : Unsubscribe(subscriber)

UnsubscribeOperationCall ==
  \E id \in ConnIds, operationId \in OpIds : UnsubscribeOperation(id, operationId)

UnsubscribeAllByConnectionIdCall ==
  \E id \in ConnIds : UnsubscribeAllByConnectionId(id)

\* one more API call within the budget
Counted(max) == ops < max /\ ops' = ops + 1

Next ==
  \/ Counted(MaxOps) /\ HydrateOrRegisterConnectionCall
  \/ Counted(MaxOps) /\ HydrateConnectionCall
  \/ Counted(MaxOps) /\ CloseConnectionCall
  \/ Counted(MaxOps) /\ SetConnectionDataCall
  \/ Counted(MaxOps) /\ RegisterConnectionCall
  \/ Counted(MaxOps) /\ UnregisterConnectionCall
  \/ Counted(MaxOps) /\ SubscribeCall
  \/ Counted(MaxOps) /\ UnsubscribeCall
  \/ Counted(MaxOps) /\ UnsubscribeOperationCall
  \/ Counted(MaxOps) /\ UnsubscribeAllByConnectionIdCall
  \/ StartDispatch
  \/ \E i \in 1..Cardinality(ConnIds) : BranchStep(i)
  \/ HandlerSettles

Spec == Init /\ [][Next]_vars

\* the event loop runs the continuation of await Promise.all(promises) once
\* all promises are settled; nothing makes a downstream call complete
SpecFair == Init /\ [][Next]_vars /\ WF_vars(HandlerSettles)

\* the registry and the index alone, with a longer sequence of calls
NextApi ==
  \/ Counted(MaxApiOps) /\ HydrateOrRegisterConnectionAtCall
  \/ Counted(MaxApiOps) /\ HydrateConnectionCall
  \/ Counted(MaxApiOps) /\ CloseConnectionCall
  \/ Counted(MaxApiOps) /\ SetConnectionDataCall
  \/ Counted(MaxApiOps) /\ RegisterConnectionCall
  \/ Counted(MaxApiOps) /\ UnregisterConnectionCall
  \/ Counted(MaxApiOps) /\ SubscribeCall
  \/ Counted(MaxApiOps) /\ UnsubscribeCall
  \/ Counted(MaxApiOps) /\ UnsubscribeOperationCall
  \/ Counted(MaxApiOps) /\ UnsubscribeAllByConnectionIdCall

SpecApi == Init /\ [][NextApi]_vars

\* a subscriber sequence iterated by its caller, with index calls in between
NextIter ==
  \/ Counted(MaxIterOps) /\ SubscribeCall
  \/ Counted(MaxIterOps) /\ UnsubscribeCall
  \/ Counted(MaxIterOps) /\ UnsubscribeOperationCall
  \/ Counted(MaxIterOps) /\ UnsubscribeAllByConnectionIdCall
  \/ \E name \in EventNames : CallSubscribersByEvent([event |-> name])
  \/ StartIteration
  \/ IteratorNext

SpecIter == Init /\ [][NextIter]_vars

\* ---------------------------------------------------------------- properties
ConnectionIdsOf(list) == {list[i].connection.id : i \in 1..Len(list)}

\* C1: in every state a sequence of subscribe, unsubscribe,
\* unsubscribeOperation and unsubscribeAllByConnectionId calls can reach from
\* the empty index, the subscriber list of every event key holds at most one
\* subscriber per connection id: its length is the number of distinct
\* connection ids in it.
C1_OneSubscriberPerConnection ==
  \A k \in DOMAIN subscriptions :
    Cardinality(ConnectionIdsOf(subscriptions[k])) = Len(subscriptions[k])

\* two connections are listed under one key, with different operationIds,
\* after at least one further call
C1_Witness ==
  \E k \in DOMAIN subscriptions :
    /\ Len(subscriptions[k]) = 2
    /\ subscriptions[k][1].operationId # subscriptions[k][2].operationId
    /\ ops > 2

\* C2: a step of unsubscribeAllByConnectionId(id) leaves, for every event,
\* a batch of subscribersByEvent without any subscriber of connection id,
\* and keeps the subscribers of all other connections.
C2_UnsubscribeAllRemovesConnection ==
  [][\A id \in ConnIds :
       UnsubscribeAllByConnectionId(id) =>
         \A name \in EventNames :
           LET before == subscribersByEvent(subscriptions, [event |-> name])
               after == subscribersByEvent(subscriptions', [event |-> name])
           IN  after = SelectSeq(before, LAMBDA s : s.connection.id # id)]_vars

\* C3: a step of unsubscribeOperation(connectionId, operationId) removes
\* from every event key exactly the entries that match both the connection
\* id and the operationId, and keeps every other entry in place.
C3_UnsubscribeOperationRemovesExactly ==
  [][\A id \in ConnIds, operationId \in OpIds :
       UnsubscribeOperation(id, operationId) =>
         /\ DOMAIN subscriptions' = DOMAIN subscriptions
         /\ \A k \in DOMAIN subscriptions :
              subscriptions'[k] =
                SelectSeq(subscriptions[k],
                          LAMBDA s : ~(s.connection.id = id /\ s.operationId = operationId))]_vars

\* ---- one dispatch
Settled == handler \in {"resolved", "rejected"}

\* the entries of bag B that satisfy P, with their multiplicity
BagFilter(B, P(_)) == [m \in {x \in DOMAIN B : P(x)} |-> B[m]]

\* number of sendToConnection calls made for branch i
SendsOf(i) == BagCardinality(BagFilter(sendLog, LAMBDA m : m.branch = i))

\* number of onError invocations made for branch i
ErrorsOf(i) == BagCardinality(BagFilter(errLog, LAMBDA m : m.branch = i))

\* N, M and the number of sends rejected with a non-stale transport error
BatchSize == Len(batch)
FailedResolutions == Cardinality({i \in DOMAIN branches : branches[i].result = "throw"})
FailedSends == Cardinality({i \in DOMAIN branches : branches[i].send = "error"})

\* every resolution of the batch either failed or produced a non-null result
ResolvedWithFailureOrValue ==
  \A i \in DOMAIN branches : branches[i].result \in {"throw", "value"}

\* C4 as stated: once the handler's promise has settled for a batch of N
\* subscribers of which M resolutions failed and the others produced a
\* result, exactly N-M sends occurred, onError was invoked exactly M times
\* and the promise is resolved.
C4_AsStated ==
  (Settled /\ ResolvedWithFailureOrValue) =>
    /\ BagCardinality(sendLog) = BatchSize - FailedResolutions
    /\ BagCardinality(errLog) = FailedResolutions
    /\ handler = "resolved"

\* C4 (amended): in the same situation exactly N-M sends occurred, the
\* promise is resolved, and onError was invoked exactly M + K times, K being
\* the number of those sends that the transport rejected with an error other
\* than the stale-connection one.
C4_SendsAndErrorsCounted ==
  (Settled /\ ResolvedWithFailureOrValue) =>
    /\ BagCardinality(sendLog) = BatchSize - FailedResolutions
    /\ BagCardinality(errLog) = FailedResolutions + FailedSends
    /\ handler = "resolved"

\* a settled dispatch of two subscribers: one resolution failed, the other
\* produced a result whose send was rejected by the transport
C4_Witness ==
  /\ Settled
  /\ BatchSize = 2
  /\ FailedResolutions = 1
  /\ FailedSends = 1
  /\ BagCardinality(sendLog) = 1
  /\ BagCardinality(errLog) = 2

\* C5: a branch that failed or is still pending neither cancels nor blocks
\* its siblings: whatever the state of the others, a branch that awaits its
\* resolution or its post can take its next step, and a branch with a
\* result has made its send; every failure
\* was handed to onError once and the handler's promise is never rejected;
\* and a step of one branch changes no other branch.
C5_FailureIsolated ==
  /\ [](\A i \in DOMAIN branches :
          /\ branches[i].pc \in {"executing", "sending"} => ENABLED BranchStep(i)
          /\ branches[i].result = "value" => SendsOf(i) = 1
          /\ branches[i].promise = "rejected" =>
               ErrorsOf(i) = 1 /\ branches[i].wrapped = "fulfilled"
          /\ handler # "rejected")
  /\ [][\A i \in DOMAIN branches :
          (i \in DOMAIN branches' /\ branches'[i] # branches[i] /\ handler' = handler) =>
             \A j \in DOMAIN branches \ {i} :
               j \in DOMAIN branches' /\ branches'[j] = branches[j]]_vars

\* one branch failed and was reported, its sibling has sent and the
\* handler's promise is resolved
C5_Witness ==
  \E i, j \in DOMAIN branches :
    /\ i # j
    /\ branches[i].promise = "rejected"
    /\ ErrorsOf(i) = 1
    /\ branches[j].send = "ok"
    /\ SendsOf(j) = 1
    /\ handler = "resolved"

\* C6: when the transport answers a post with the stale status (410), the
\* connection is absent from the registry once the send has returned, the
\* send resolves (the branch's promise is fulfilled), onError is not invoked
\* and no other branch is changed, so the other sends still take place.
C6_StaleSendPrunes ==
  [][\A i \in DOMAIN branches :
       PostSettles(i, GoneStatusCode) =>
         /\ batch[i].connection.id \notin DOMAIN connections'
         /\ \A id \in DOMAIN connections \ {batch[i].connection.id} :
              id \in DOMAIN connections' /\ connections'[id] = connections[id]
         /\ branches'[i].promise = "fulfilled"
         /\ errLog' = errLog
         /\ \A j \in DOMAIN branches \ {i} : branches'[j] = branches[j]
         /\ sendLog' = sendLog
         /\ handler' # "rejected"]_vars

\* a send reported stale and pruned its connection, the send to the other
\* subscriber succeeded, nothing was reported to onError
C6_Witness ==
  \E i, j \in DOMAIN branches :
    /\ branches[i].send = "stale"
    /\ batch[i].connection.id \notin DOMAIN connections
    /\ branches[j].send = "ok"
    /\ errLog = EmptyBag
    /\ handler = "resolved"

\* C7: when the transport answers a post with an error other than the stale
\* one, the send raises it to its caller (the branch's promise is rejected)
\* and the registry is unchanged: the connection keeps its record.
C7_OtherErrorRaised ==
  [][\A i \in DOMAIN branches, statusCode \in StatusCodes :
       (PostSettles(i, statusCode) /\ ~PostSucceeds(statusCode)
          /\ statusCode # GoneStatusCode) =>
         /\ connections' = connections
         /\ branches'[i].promise = "rejected"
         /\ ErrorsOf(i)' = ErrorsOf(i) + 1]_vars

\* a send failed with a non-stale error and its connection is still
\* registered
C7_Witness ==
  \E i \in DOMAIN branches :
    /\ branches[i].send = "error"
    /\ branches[i].promise = "rejected"
    /\ batch[i].connection.id \in DOMAIN connections
    /\ connections[batch[i].connection.id] = batch[i].connection

\* C8: a subscriber of the batch is sent a message if and only if its
\* resolution produced a non-null result: then exactly one message is posted
\* to its connection id, carrying its operationId, the result as payload and
\* type DATA; when the result is null nothing is sent to it and onError is
\* not invoked for it.
C8_SentIffResult ==
  \A i \in DOMAIN branches :
    /\ SendsOf(i) = (IF branches[i].result = "value" THEN 1 ELSE 0)
    /\ \A m \in DOMAIN sendLog :
         m.branch = i =>
           /\ m.ConnectionId = batch[i].connection.id
           /\ m.Data = [id |-> batch[i].operationId,
                        payload |-> branches[i].value,
                        type |-> GQL_DATA]
           /\ branches[i].value \in Payloads
    /\ branches[i].result = "null" => ErrorsOf(i) = 0

\* one subscriber's filter rejected the event, the other's accepted it and
\* its message was posted
C8_Witness ==
  \E i, j \in DOMAIN branches :
    /\ branches[i].result = "null"
    /\ branches[i].pc = "settled"
    /\ SendsOf(i) = 0
    /\ branches[j].result = "value"
    /\ SendsOf(j) = 1

\* the sends of the current dispatch addressed to (connection id, operationId)
SendsTo(id, operationId) ==
  BagCardinality(BagFilter(sendLog,
                           LAMBDA m : m.ConnectionId = id /\ m.Data.id = operationId))

\* C9: within one dispatch at most one send is attempted for every
\* (connection id, operationId) pair.
C9_AtMostOneSendPerOperation ==
  \A id \in ConnIds, operationId \in OpIds : SendsTo(id, operationId) <= 1

\* two sends of one dispatch, to two connections that use the same operationId
C9_Witness ==
  \E operationId \in OpIds :
    \A id \in ConnIds : SendsTo(id, operationId) = 1

\* C10: a step of a dispatch (a step that is no registry or index call)
\* leaves the subscription index unchanged and changes the registry only by
\* removing the connection of a send that reported stale; and a dispatch
\* started for the same event as the previous one, with no index call in
\* between, iterates over the same batch.
C10_DispatchReinvocable ==
  [][ops' = ops =>
       /\ subscriptions' = subscriptions
       /\ \/ connections' = connections
          \/ \E i \in DOMAIN branches :
               /\ branches[i].pc = "sending"
               /\ branches'[i].send = "stale"
               /\ connections' = MapDelete(connections, batch[i].connection.id)
       /\ (handler \in {"resolved", "rejected"} /\ handler' = "running"
             /\ event' = event /\ ~indexTouched) => batch' = batch]_vars

\* a second dispatch of the event has started over the same batch, after the
\* first one pruned the subscriber's connection
C10_Witness ==
  /\ handler = "running"
  /\ ~indexTouched
  /\ ops = 1
  /\ Len(batch) = 1
  /\ batch[1].connection.id \notin DOMAIN connections
  /\ branches[1].pc = "executing"
  /\ sendLog = EmptyBag

\* ---- settlement of the handler
AllBranchesSettled == \A i \in DOMAIN branches : branches[i].pc = "settled"

\* C11: the handler's promise is resolved only when every branch of the
\* batch has settled, and a running handler all of whose branches have
\* settled eventually resolves.
C11_ResolvesOnceAllSettled ==
  /\ [](handler = "resolved" => AllBranchesSettled)
  /\ (handler = "running" /\ AllBranchesSettled) ~> (handler = "resolved")

\* the handler resolved after both branches of its batch settled, one of
\* them by a handled failure
C11_Witness ==
  /\ handler = "resolved"
  /\ Len(batch) = 2
  /\ AllBranchesSettled
  /\ \E i \in DOMAIN branches : branches[i].promise = "rejected"

\* C12: the sequence returned by one subscribersByEvent(event) call yields
\* exactly one batch and then ends, also when it is iterated a second time:
\* an iterator of it that is exhausted has yielded the only batch the
\* sequence ever yields.
C12_OneShotSequence ==
  (iterations > 0 /\ iterator = <<>>) => Len(yielded) = 1

\* the records a subscribe call is made with
Registered == {connections[id] : id \in DOMAIN connections}

StoredUnder(subs, name) == IF name \in DOMAIN subs THEN subs[name] ELSE <<>>

InBatch(subs, id, name) ==
  HasConnection(subscribersByEvent(subs, [event |-> name]), id)

NamesHit(names, connection, name) ==
  \E i \in 1..Len(names) :
    getSubscriptionNameFromConnection(names[i], connection) =
      getSubscriptionNameFromEvent([event |-> name])

BatchIsListOfKey ==
  \A name \in EventNames :
    LET b == subscribersByEvent(subscriptions, [event |-> name])
    IN  /\ b = StoredUnder(subscriptions, name)
        /\ \A i \in 1..Len(b) : b[i].event = name

\* what a subscribe call made now would leave in the index
AfterSubscribe(names, connection, operationId) ==
  subscribe(subscriptions, names, connection, [operationId |-> operationId])

SubscribeEntersBatch ==
  \A names \in NameLists, connection \in Registered, operationId \in OpIds :
    LET after == AfterSubscribe(names, connection, operationId)
    IN  \A name \in EventNames :
          InBatch(after, connection.id, name) <=>
            \/ NamesHit(names, connection, name)
            \/ InBatch(subscriptions, connection.id, name)

\* the entry of connection id in a list that has one
EntryOf(list, id) == list[CHOOSE i \in 1..Len(list) : list[i].connection.id = id]

BatchMembership ==
  \A id \in ConnIds, name \in EventNames :
    /\ (~InBatch(subscriptions, id, name) /\ InBatch(subscriptions', id, name)) =>
         LET entry == EntryOf(subscribersByEvent(subscriptions', [event |-> name]), id)
         IN  \E names \in NameLists :
               /\ NamesHit(names, entry.connection, name)
               /\ Subscribe(names, entry.connection, entry.operation)
    /\ (InBatch(subscriptions, id, name) /\ ~InBatch(subscriptions', id, name)) =>
         \/ UnsubscribeCall
         \/ UnsubscribeOperationCall
         \/ UnsubscribeAllByConnectionIdCall

\* C13: a subscriber registered by subscribe with name n for connection c is
\* in the batch of subscribersByEvent(e) exactly when nameFromConnection(n, c)
\* equals nameFromEvent(e) and no unsubscribe operation has removed it since
\* (membership starts only with such a subscribe and ends only with an
\* unsubscribe operation); the batch is the whole list stored under that key
\* and holds no subscriber of another key.
C13_BatchIsSubscribersOfKey ==
  /\ []BatchIsListOfKey
  /\ []SubscribeEntersBatch
  /\ [][subscriptions' # subscriptions => BatchMembership]_vars

C13_Witness ==
  /\ Len(subscribersByEvent(subscriptions, [event |-> "e1"])) = 2
  /\ InBatch(subscriptions, "c2", "e2")
  /\ ~InBatch(subscriptions, "c1", "e2")

EntriesOfOthers(list, id) == SelectSeq(list, LAMBDA s : s.connection.id # id)

UnsubscribeFrame(subscriber) ==
  /\ ~HasConnection(StoredUnder(subscriptions', subscriber.event),
                    subscriber.connection.id)
  /\ EntriesOfOthers(StoredUnder(subscriptions', subscriber.event),
                     subscriber.connection.id)
       = EntriesOfOthers(StoredUnder(subscriptions, subscriber.event),
                         subscriber.connection.id)
  /\ \A name \in EventNames \ {subscriber.event} :
       StoredUnder(subscriptions', name) = StoredUnder(subscriptions, name)
  /\ connections' = connections

\* C14: unsubscribe(subscriber) removes every entry under subscriber.event
\* whose connection id is subscriber.connection.id and leaves unchanged the
\* entries of other connections under that event and every entry under all
\* other event keys, the same connection's included.
C14_UnsubscribeFrame ==
  [][\A subscriber \in SubscriberArgs :
       Unsubscribe(subscriber) => UnsubscribeFrame(subscriber)]_vars

\* after unsubscribe({event: e1, connection: c1}) from c1 and c2 on e1 and c1
\* on e2: the key e1 is left without c1, c2 and c1's entry under e2 remain
C14_Witness ==
  /\ "e1" \in DOMAIN subscriptions
  /\ ~HasConnection(subscriptions["e1"], "c1")
  /\ HasConnection(subscriptions["e1"], "c2")
  /\ HasConnection(StoredUnder(subscriptions, "e2"), "c1")

\* C15: in every state, a subscribe call for a (key, connection id) pair that
\* already has a subscriber leaves the list of that key as it is: the entry keeps the
\* operation and operationId of the first subscribe and the later operation
\* is not registered. If every named key already has the connection, the
\* whole index is unchanged.
C15_DuplicateSubscribeIsNoOp ==
  \A names \in NameLists, connection \in Registered, operationId \in OpIds :
    LET after == AfterSubscribe(names, connection, operationId)
        Has(name) == HasConnection(StoredUnder(subscriptions, name), connection.id)
    IN  /\ \A name \in EventNames :
             (NamesHit(names, connection, name) /\ Has(name)) =>
               /\ name \in DOMAIN after
               /\ after[name] = subscriptions[name]
        /\ (\A name \in EventNames : NamesHit(names, connection, name) => Has(name))
             => after = subscriptions

\* c1 subscribed to e1 with op1 and later to e1 and e2 with op2: the entry
\* under e1 still carries op1
C15_Witness ==
  /\ \E i \in 1..Len(StoredUnder(subscriptions, "e1")) :
       /\ subscriptions["e1"][i].connection.id = "c1"
       /\ subscriptions["e1"][i].operationId = "op1"
       /\ subscriptions["e1"][i].operation = [operationId |-> "op1"]
  /\ \E i \in 1..Len(StoredUnder(subscriptions, "e2")) :
       /\ subscriptions["e2"][i].connection.id = "c1"
       /\ subscriptions["e2"][i].operationId = "op2"

\* C16: hydrateConnection(connectionId) fails with ConnectionNotFoundError
\* exactly when the registry holds no record with that id (never registered,
\* unregistered, or pruned after a stale send), returns the stored record
\* otherwise, and leaves the registry unchanged in both cases.
C16_HydrateFailsIffAbsent ==
  [][\A id \in ConnIds :
       HydrateConnection(id) =>
         /\ ret'.kind = "throw" <=> id \notin DOMAIN connections
         /\ ret'.kind = "throw" => ret'.error = "ConnectionNotFoundError"
         /\ id \in DOMAIN connections => ret' = Return(connections[id])
         /\ connections' = connections]_vars

\* hydrateConnection("c1") has just failed for a connection that a stale
\* send pruned (the two calls made are the subscribe and this one)
C16_Witness ==
  /\ ret = Throw("ConnectionNotFoundError")
  /\ ops = 2
  /\ DOMAIN connections = {"c2"}
  /\ \E i \in DOMAIN branches :
       /\ branches[i].send = "stale"
       /\ batch[i].connection.id = "c1"

\* C17: hydrateOrRegisterConnection(connectionId, endpoint) never fails: when
\* a record with that id exists it returns that record and leaves it
\* unchanged (endpoint, context and isInitialized are not overwritten by the
\* arguments); when none exists it creates and returns a record with
\* isInitialized = true, empty context and the given endpoint.
C17_HydrateOrRegister ==
  [][\A id \in ConnIds, endpoint \in Endpoints :
       HydrateOrRegisterConnection(id, endpoint) =>
         /\ ret'.kind = "return"
         /\ ret'.value = connections'[id]
         /\ id \in DOMAIN connections => connections' = connections
         /\ id \notin DOMAIN connections =>
              /\ connections'[id].id = id
              /\ connections'[id].data.isInitialized = TRUE
              /\ connections'[id].data.context = EmptyContext
              /\ connections'[id].data.endpoint = endpoint
              /\ \A other \in ConnIds \ {id} :
                   /\ other \in DOMAIN connections' <=> other \in DOMAIN connections
                   /\ other \in DOMAIN connections =>
                        connections'[other] = connections[other]]_vars

\* the call returned an existing record that differs from what its arguments
\* would have created: not initialized, or another endpoint, or with context
C17_Witness ==
  /\ ret.kind = "return"
  /\ \E id \in DOMAIN connections :
       /\ ret.value = connections[id]
       /\ \/ ~connections[id].data.isInitialized
          \/ connections[id].data.context = CustomContext
       /\ connections[id].data.endpoint # EndpointOf[id]

\* C18: registerConnection(connectionId, endpoint) always leaves the registry
\* holding, for that id, one record with isInitialized = false, empty context
\* and the given endpoint, replacing any record stored for the id before
\* (also an initialized one with data), and leaves the records of all other
\* ids unchanged.
C18_RegisterReplaces ==
  [][\A id \in ConnIds :
       RegisterConnection(id, EndpointOf[id]) =>
         /\ id \in DOMAIN connections'
         /\ connections'[id] =
              [id |-> id,
               data |-> [endpoint |-> EndpointOf[id], context |-> EmptyContext,
                         isInitialized |-> FALSE]]
         /\ \A other \in ConnIds \ {id} :
              /\ other \in DOMAIN connections' <=> other \in DOMAIN connections
              /\ other \in DOMAIN connections =>
                   connections'[other] = connections[other]]_vars

\* a subscriber still holds c1's earlier record, initialized and with a
\* context; the registry now holds the uninitialized one a register stored
\* over it, and c2's record with its context is as it was
C18_Witness ==
  /\ \E name \in DOMAIN subscriptions : \E i \in 1..Len(subscriptions[name]) :
       /\ subscriptions[name][i].connection.id = "c1"
       /\ subscriptions[name][i].connection.data.context = CustomContext
  /\ ret = Return(NewConnection("c1", EndpointOf["c1"], FALSE))
  /\ "c1" \in DOMAIN connections /\ connections["c1"] = ret.value
  /\ "c2" \in DOMAIN connections
  /\ connections["c2"].data.context = CustomContext

LifecycleOf(id) ==
  /\ (id \notin DOMAIN connections /\ id \in DOMAIN connections') =>
       \/ RegisterConnection(id, EndpointOf[id])
       \/ \E endpoint \in Endpoints : HydrateOrRegisterConnection(id, endpoint)
  /\ (id \in DOMAIN connections /\ id \notin DOMAIN connections') =>
       \/ \E connection \in HeldConnections :
            connection.id = id /\ UnregisterConnection(connection)
       \/ \E i \in DOMAIN branches :
            batch[i].connection.id = id /\ PostSettles(i, GoneStatusCode)

SetDataOnlyReplaces ==
  \A connection \in HeldConnections :
    SetConnectionData(DataOf(connection), connection) =>
      /\ DOMAIN connections' = DOMAIN connections
      /\ connection.id \in DOMAIN connections
      /\ connections'[connection.id] =
           [id |-> connection.id, data |-> DataOf(connection)]

NoRegistryEffect ==
  (\/ HydrateConnectionCall
   \/ CloseConnectionCall
   \/ \E i \in DOMAIN branches, statusCode \in StatusCodes \ {GoneStatusCode} :
        PostSettles(i, statusCode))
    => connections' = connections

\* C19: connection records follow the stated lifecycle: an absent id becomes
\* present only through registerConnection or hydrateOrRegisterConnection, a
\* present id becomes absent only through unregisterConnection or a send that
\* reports stale; setConnectionData only replaces the data of a record and
\* creates none (also not for a connection pruned in between); and
\* hydrateConnection, closeConnection and non-stale sends neither add nor
\* remove records.
C19_ConnectionLifecycle ==
  [][/\ \A id \in ConnIds : LifecycleOf(id)
     /\ SetDataOnlyReplaces
     /\ NoRegistryEffect]_vars

SendsFollowBatch ==
  \A m \in BagToSet(sendLog) :
    /\ m.branch \in DOMAIN batch
    /\ m.ConnectionId = batch[m.branch].connection.id
    /\ m.Data.id = batch[m.branch].operationId

BranchesFollowBatch ==
  handler = "running" =>
    /\ DOMAIN branches = DOMAIN batch
    /\ indexTouched =>
         \A i \in DOMAIN branches :
           branches[i].pc = "executing" => \E v \in Payloads : ENABLED ExecuteValue(i, v)

\* C20: the batch a dispatch fans out over is a snapshot taken when it is
\* yielded: a subscribe, unsubscribe, unsubscribeOperation or
\* unsubscribeAllByConnectionId that interleaves with the in-flight branches
\* changes neither the members nor the length of the batch (the steps that
\* change the index are these calls); every send of the
\* dispatch goes to a member of the batch (a subscriber added meanwhile gets
\* none) and the branch of a member removed meanwhile can still send.
C20_BatchIsSnapshot ==
  /\ [][(handler = "running" /\ subscriptions' # subscriptions) =>
          /\ batch' = batch
          /\ DOMAIN branches' = DOMAIN branches
          /\ handler' = "running"]_vars
  /\ []SendsFollowBatch
  /\ []BranchesFollowBatch

\* the only member of the batch was removed from the index during the
\* dispatch and its send was still made and succeeded
C20_Witness ==
  /\ handler = "resolved"
  /\ indexTouched
  /\ Len(batch) = 1
  /\ subscribersByEvent(subscriptions, event) = <<>>
  /\ branches[1].send = "ok"
  /\ \E m \in BagToSet(sendLog) : m.ConnectionId = batch[1].connection.id

Unregistered(i) == batch[i].connection.id \notin DOMAIN connections

\* C21: removing a connection from the registry (unregisterConnection, or the
\* pruning after a stale send) leaves the subscription index unchanged: its
\* subscribers stay listed, so a later dispatch of such an event has them in
\* its batch whatever the registry holds, and their branches can still send.
C21_RemovalKeepsSubscribers ==
  /\ [][(\E id \in DOMAIN connections : id \notin DOMAIN connections') =>
          subscriptions' = subscriptions]_vars
  /\ [][(handler # "running" /\ handler' = "running") =>
          batch' = StoredUnder(subscriptions, getSubscriptionNameFromEvent(event'))]_vars
  /\ [](handler = "running" =>
          \A i \in DOMAIN branches :
            (branches[i].pc = "executing" /\ Unregistered(i)) =>
              \E v \in Payloads : ENABLED ExecuteValue(i, v))

\* c1 is gone from the registry, still listed under the event, and the
\* dispatch sent to it: the send is in flight while the registry has no c1
C21_Witness ==
  /\ handler = "running"
  /\ \E i \in DOMAIN branches :
       /\ branches[i].pc = "sending"
       /\ Unregistered(i)
       /\ HasConnection(StoredUnder(subscriptions, event.event), batch[i].connection.id)
       /\ \E m \in BagToSet(sendLog) :
            m.branch = i /\ m.ConnectionId = batch[i].connection.id

\* C22: every send is posted to the transport with the id and the endpoint of
\* the connection it is addressed to; the endpoint of an earlier send is not
\* reused for a connection with another endpoint.
C22_SendUsesOwnEndpoint ==
  \A m \in BagToSet(sendLog) :
    /\ m.ConnectionId = batch[m.branch].connection.id
    /\ m.endpoint = batch[m.branch].connection.data.endpoint

NonIterable(i) == branches[i].result = "noniterable"

\* C23: a dispatch branch whose execution returns a non-iterable result makes
\* no send and does not invoke onError (it counts neither as a delivery nor
\* as a reported failure), its promise is fulfilled, and the dispatch still
\* resolves: once all branches are settled the handler can settle, and it
\* settles as resolved.
C23_NonIterableIsSilent ==
  /\ \A i \in DOMAIN branches :
       NonIterable(i) =>
         /\ branches[i].pc = "settled"
         /\ branches[i].promise = "fulfilled"
         /\ branches[i].send = "none"
         /\ SendsOf(i) = 0
         /\ ErrorsOf(i) = 0
  /\ (\E i \in DOMAIN branches : NonIterable(i)) =>
       /\ handler # "rejected"
       /\ (handler = "running" /\ AllBranchesSettled) =>
            ENABLED (HandlerSettles /\ handler' = "resolved")

\* a dispatch over two subscribers has resolved: one execution returned a
\* non-iterable result, the other one's value was sent; onError was not called
C23_Witness ==
  /\ handler = "resolved"
  /\ \E i, j \in DOMAIN branches :
       /\ NonIterable(i)
       /\ branches[j].send = "ok"
       /\ SendsOf(j) = 1
  /\ BagCardinality(sendLog) = 1
  /\ errLog = EmptyBag

====
